---- MODULE Spec2Model ----
(***************************************************************************)
(* A model of the two utility scripts of atomsci/ddm/utils:                *)
(*   model_version_utils.py   reading the AMPL version of packaged models  *)
(*                            and checking it against the installed one;   *)
(*   compare_splits_plots.py  SplitStats, split() and the script's main.   *)
(* Python strings are sequences of one-character strings, so that slicing, *)
(* stripping, joining and the regular expression act on characters.        *)
(* A call's result is an outcome record: kind "return" with the value in   *)
(* val, or kind "raise" with the exception type in val; detail holds the   *)
(* arguments formatted into the message (or the missing key).              *)
(***************************************************************************)
EXTENDS Integers, Sequences, FiniteSets, TLC

VARIABLES
    installed,   \* the version string metadata.version("atomsci-ampl") returns
    archives,    \* the *.tar.gz files on disk, in rglob order: [path, metadata]
    call,        \* the last call of model_version_utils' API and its outcome
    total_df,    \* the dataset: a sequence of rows
    split_df,    \* the split table: a sequence of rows (cmpd_id, subset)
    ss,          \* the SplitStats object last constructed, or NoObject
    figures,     \* the files written by save_figure
    script       \* the outcome of the last run of compare_splits_plots' main

vars == <<installed, archives, call, total_df, split_df, ss, figures, script>>

----------------------------------------------------------------------------
(* Python values and strings *)

Return(v) == [kind |-> "return", val |-> v, detail |-> <<>>]

Raise(exc, args) == [kind |-> "raise", val |-> exc, detail |-> args]

DigitChars == <<"0", "1", "2", "3", "4", "5", "6", "7", "8", "9">>

IsDigit(c) == \E i \in 1..Len(DigitChars) : DigitChars[i] = c

Whitespace == {" ", "\n", "\t"}

\* str(n) for a natural number
RECURSIVE str(_)
str(n) ==
    IF n < 10 THEN <<DigitChars[n + 1]>>
    ELSE str(n \div 10) \o <<DigitChars[(n % 10) + 1]>>

\* sep.join(parts)
RECURSIVE join(_, _)
join(sep, parts) ==
    IF Len(parts) = 0 THEN <<>>
    ELSE IF Len(parts) = 1 THEN parts[1]
    ELSE parts[1] \o sep \o join(sep, Tail(parts))

\* s[:n]
Slice(s, n) == SubSeq(s, 1, IF Len(s) < n THEN Len(s) ELSE n)

RECURSIVE lstrip(_)
lstrip(s) ==
    IF Len(s) > 0 /\ s[1] \in Whitespace THEN lstrip(Tail(s)) ELSE s

RECURSIVE rstrip(_)
rstrip(s) ==
    IF Len(s) > 0 /\ s[Len(s)] \in Whitespace
    THEN rstrip(SubSeq(s, 1, Len(s) - 1)) ELSE s

\* s.strip()
strip(s) == rstrip(lstrip(s))

\* dict.get(key, default)
DictGet(d, key, default) == IF key \in DOMAIN d THEN d[key] ELSE default

----------------------------------------------------------------------------
(* Version strings: the dotted form of a release tuple *)

VersionString(t) == join(<<".">>, [i \in 1..Len(t) |-> str(t[i])])

Minors == {2, 3, 4, 5, 6, 10}
Patches == {0, 1}

\* 1.minor and 1.minor.patch, and one release of another major number
Releases ==
    {<<1, mi>> : mi \in Minors}
        \cup {<<1, mi, pa>> : mi \in Minors, pa \in Patches}
        \cup {<<2, 2, 0>>}

\* strings that are no version; the last two are made of digits and dots only
OtherStrings ==
    { <<>>, <<"v", "1", ".", "2">>, <<"1", ".", "2", "a">>, <<"a", "b", "c">>,
      <<" ", "1", ".", "4">>, <<"1", ".", "4", "-", "r", "c">>,
      <<".", ".">>, <<"1">> }

InstalledReleases ==
    {<<1, 2, 0>>, <<1, 3, 1>>, <<1, 4, 0>>, <<1, 5, 1>>, <<1, 6, 0>>, <<1, 10, 0>>}

\* the version string of each release of the model
VersionOf == [t \in Releases \cup InstalledReleases |-> VersionString(t)]

InstalledVersions == {VersionOf[t] : t \in InstalledReleases}

----------------------------------------------------------------------------
(* model_version_utils.py *)

\* a slip in the table: 1.3 entered in the second group
comp_dict_shifted ==
    [k \in {<<"1", ".", "2">>, <<"1", ".", "3">>, <<"1", ".", "4">>, <<"1", ".", "5">>} |->
        IF k = <<"1", ".", "2">> THEN "group1" ELSE "group2"]

comp_dict ==
    [k \in {<<"1", ".", "2">>, <<"1", ".", "3">>, <<"1", ".", "4">>, <<"1", ".", "5">>} |->
        IF k \in {<<"1", ".", "2">>, <<"1", ".", "3">>} THEN "group1" ELSE "group2"]

\* re.match in place of re.fullmatch: only a prefix has to match
match_version_pattern(s) ==
    /\ Len(s) >= 1
    /\ IsDigit(s[1]) \/ s[1] = "."

\* re.fullmatch(version_pattern, s) is not None, version_pattern = [\d.]+
fullmatch_version_pattern(s) ==
    /\ Len(s) >= 1
    /\ \A i \in 1..Len(s) : IsDigit(s[i]) \/ s[i] = "."

default_version ==
    <<"p", "r", "o", "b", "a", "b", "l", "y", " ", "1", ".", "0", ".", "0">>

\* JSON values, as json.load builds them: None, a str, a dict (keys to values)
JNull == [type |-> "NoneType"]
JStr(s) == [type |-> "str", s |-> s]
JDict(d) == [type |-> "dict", items |-> d]

\* The states of model_metadata.json in an extracted archive: absent, not
\* JSON, or a JSON document.
NoMetadata == [state |-> "absent"]
BadJson == [state |-> "invalid"]
Metadata(doc) == [state |-> "json", doc |-> doc]

get_ampl_version_from_json(metadata) ==
    IF metadata.state = "absent" THEN Raise("FileNotFoundError", <<>>)
    ELSE IF metadata.state = "invalid" THEN Raise("JSONDecodeError", <<>>)
    ELSE LET params == DictGet(metadata.doc.items, "model_parameters", JNull)
         IN  IF params.type # "dict" THEN Raise("AttributeError", <<params.type, "get">>)
             ELSE Return(DictGet(params.items, "ampl_version", JStr(default_version)).s)

\* An archive is [path, metadata]: extractall leaves its metadata in tmpdir.
get_ampl_version_from_model(archive) ==
    get_ampl_version_from_json(archive.metadata)

\* The loop of get_ampl_version_from_dir over the archives left, with the
\* versions collected and the records logged so far.
RECURSIVE dir_loop(_, _, _)
dir_loop(paths, versions, log) ==
    IF Len(paths) = 0
    THEN [outcome |-> Return(join(<<"\n">>, versions)), trace |-> log]
    ELSE LET path == paths[1]
             r == get_ampl_version_from_model(path)
         IN  IF r.kind = "return"
             THEN dir_loop(Tail(paths),
                           Append(versions, path.path \o <<",", " ">> \o r.val),
                           Append(log, <<"info", path.path>>))
             ELSE IF r.val \in {"JSONDecodeError", "FileNotFoundError"}
             THEN dir_loop(Tail(paths), versions,
                           Append(log, <<"exception", path.path>>))
             ELSE [outcome |-> r, trace |-> log]

get_ampl_version_from_dir(fs) == dir_loop(fs, <<>>, <<>>)

validate_version(input) ==
    IF fullmatch_version_pattern(input) THEN Return("True")
    ELSE Raise("ValueError", <<"not valid version format", input>>)

\* os.path.isfile(input)
isfile(fs, input) == \E i \in 1..Len(fs) : fs[i].path = input

FileAt(fs, input) == fs[CHOOSE i \in 1..Len(fs) : fs[i].path = input]

\* the whole major.minor.patch compared
major_release_patch(version) == Slice(version, 5)

\* input[:3], the "major release" the versions are compared by
major_release(version) == Slice(version, 3)

\* ignore_check not consulted
match_result_strict(match, ignore_check, input, model_ampl_version, ampl_version) ==
    IF ~match
    THEN Raise("ValueError",
               <<"not matching AMPL compatible version group",
                 input, model_ampl_version, ampl_version>>)
    ELSE Return("True")

\* lines 148-152: the result once match is known
match_result(match, ignore_check, input, model_ampl_version, ampl_version) ==
    IF ~match /\ ~ignore_check
    THEN Raise("ValueError",
               <<"not matching AMPL compatible version group",
                 input, model_ampl_version, ampl_version>>)
    ELSE Return(IF match THEN "True" ELSE "False")

\* lines 143-152, once the model's version prefix is known
compare_versions(input, model_ampl_version, ignore_check, inst, trace) ==
    LET ampl_version == major_release(inst)
        read == Append(trace, "get_ampl_version")
        looked == Append(read, "comp_dict")
    IN  IF ampl_version \notin DOMAIN comp_dict
        THEN [outcome |-> Raise("KeyError", <<ampl_version>>), trace |-> looked]
        ELSE IF model_ampl_version \notin DOMAIN comp_dict
        THEN [outcome |-> Raise("KeyError", <<model_ampl_version>>), trace |-> looked]
        ELSE [outcome |-> match_result(comp_dict[ampl_version] = comp_dict[model_ampl_version],
                                       ignore_check, input, model_ampl_version, ampl_version),
              trace |-> looked]

check_version_compatible(input, ignore_check, fs, inst) ==
    IF isfile(fs, input)
    THEN LET r == get_ampl_version_from_model(FileAt(fs, input))
             trace == <<"isfile", "get_ampl_version_from_model">>
         IN  IF r.kind = "raise" THEN [outcome |-> r, trace |-> trace]
             ELSE compare_versions(input, major_release(strip(r.val)),
                                   ignore_check, inst, trace)
    ELSE LET v == validate_version(input)
             trace == <<"isfile", "validate_version">>
         IN  IF v.kind = "raise" THEN [outcome |-> v, trace |-> trace]
             ELSE compare_versions(input, major_release(input),
                                   ignore_check, inst, trace)

----------------------------------------------------------------------------
(* The archives on disk and the calls of model_version_utils.  The functions *)
(* keep no state between calls, so a behaviour is one call on one disk.      *)

MaxArchives == 2

\* a version written with white space around it
Padded(version) == <<" ">> \o version \o <<"\n">>

VersionedMetadata(version) ==
    Metadata(JDict([model_parameters |-> JDict([ampl_version |-> JStr(version)])]))

MetadataStates ==
    { VersionedMetadata(VersionOf[<<1, 2, 0>>]),
      VersionedMetadata(VersionOf[<<1, 2, 1>>]),
      VersionedMetadata(Padded(VersionOf[<<1, 4, 0>>])),
      Metadata(JDict([model_parameters |-> JDict([model_type |-> JStr(<<"N", "N">>)])])),
      Metadata(JDict([model_uuid |-> JStr(<<"u">>)])),
      NoMetadata,
      BadJson }

ArchivePath(i) == <<"/", "m">> \o str(i) \o <<".", "t", "a", "r", ".", "g", "z">>

Directories ==
    UNION { { [i \in 1..n |-> [path |-> ArchivePath(i), metadata |-> m[i]]] :
                m \in [1..n -> MetadataStates] } : n \in 0..MaxArchives }

NoCall ==
    [fn |-> "none", input |-> <<>>, ignore_check |-> FALSE,
     outcome |-> Return(<<>>), trace |-> <<>>]

NoObject == [built |-> FALSE]

NoRun == [ran |-> FALSE, outcome |-> Return("None"), plotted |-> <<>>]

InitVersions ==
    /\ installed \in InstalledVersions
    /\ archives \in Directories
    /\ call = NoCall
    /\ total_df = <<>>
    /\ split_df = <<>>
    /\ ss = NoObject
    /\ figures = {}
    /\ script = NoRun

\* the strings given to check_version_compatible: versions, other strings,
\* and the paths of the archives
CheckInputs(fs) ==
    {VersionOf[t] : t \in Releases} \cup OtherStrings
        \cup {fs[i].path : i \in 1..Len(fs)}

CheckVersionCompatible ==
    /\ call.fn = "none"
    /\ \E input \in CheckInputs(archives), ignore_check \in BOOLEAN :
         LET r == check_version_compatible(input, ignore_check, archives, installed)
         IN  call' = [fn |-> "check_version_compatible", input |-> input,
                      ignore_check |-> ignore_check,
                      outcome |-> r.outcome, trace |-> r.trace]
    /\ UNCHANGED <<installed, archives, total_df, split_df, ss, figures, script>>

GetAmplVersionFromDir ==
    /\ call.fn = "none"
    /\ LET r == get_ampl_version_from_dir(archives)
       IN  call' = [fn |-> "get_ampl_version_from_dir", input |-> <<>>,
                    ignore_check |-> FALSE,
                    outcome |-> r.outcome, trace |-> r.trace]
    /\ UNCHANGED <<installed, archives, total_df, split_df, ss, figures, script>>

GetAmplVersionFromJson ==
    /\ call.fn = "none"
    /\ \E i \in 1..Len(archives) :
         call' = [fn |-> "get_ampl_version_from_json", input |-> archives[i].path,
                  ignore_check |-> FALSE,
                  outcome |-> get_ampl_version_from_json(archives[i].metadata),
                  trace |-> <<>>]
    /\ UNCHANGED <<installed, archives, total_df, split_df, ss, figures, script>>

NextVersions ==
    \/ CheckVersionCompatible
    \/ GetAmplVersionFromDir
    \/ GetAmplVersionFromJson

Spec == InitVersions /\ [][NextVersions]_vars

----------------------------------------------------------------------------
(* Properties of model_version_utils *)

\* The compatibility groups as the documentation of the table gives them, by
\* major and minor number.
Group1 == {<<1, 2>>, <<1, 3>>}
Group2 == {<<1, 4>>, <<1, 5>>}

MajorMinor(t) == <<t[1], t[2]>>

InTable(t) == MajorMinor(t) \in Group1 \cup Group2

SameGroup(t, u) ==
    \/ MajorMinor(t) \in Group1 /\ MajorMinor(u) \in Group1
    \/ MajorMinor(t) \in Group2 /\ MajorMinor(u) \in Group2

\* input carries release t: it is t's version string, or the path of an
\* archive whose metadata records it
Carries(fs, input, t) ==
    \/ input = VersionOf[t]
    \/ \E i \in 1..Len(fs) :
         /\ fs[i].path = input
         /\ fs[i].metadata \in {VersionedMetadata(VersionOf[t]),
                                VersionedMetadata(Padded(VersionOf[t]))}

InputsCarrying(fs, t) ==
    {VersionOf[t]} \cup {fs[i].path : i \in {j \in 1..Len(fs) : Carries(fs, fs[j].path, t)}}

Checked == call.fn = "check_version_compatible"

ReturnedTrue(o) == o.kind = "return" /\ o.val = "True"
ReturnedFalse(o) == o.kind = "return" /\ o.val = "False"
Raised(o, exc) == o.kind = "raise" /\ o.val = exc

\* C1: for a model version and an installed version both of the table,
\* check_version_compatible returns True exactly when the two are in the same
\* compatibility group (1.2, 1.3 | 1.4, 1.5).
C1_TrueIffSameGroup ==
    Checked =>
        \A r \in InstalledReleases, m \in Releases :
            (/\ installed = VersionOf[r]
             /\ InTable(r) /\ InTable(m)
             /\ Carries(archives, call.input, m))
            => (ReturnedTrue(call.outcome) <=> SameGroup(m, r))

\* a model of release 1.3.1 was checked on an installed 1.2.0 and found compatible
C1_Witness ==
    /\ Checked
    /\ installed = VersionOf[<<1, 2, 0>>]
    /\ call.input = VersionOf[<<1, 3, 1>>]
    /\ ReturnedTrue(call.outcome)

\* C2: with both versions in the table: in different groups the call raises
\* ValueError when ignore_check is False and returns False when it is True; in
\* the same group it returns True whatever ignore_check is.
C2_MismatchRaisesUnlessIgnored ==
    Checked =>
        \A r \in InstalledReleases, m \in Releases :
            (/\ installed = VersionOf[r]
             /\ InTable(r) /\ InTable(m)
             /\ Carries(archives, call.input, m))
            => IF SameGroup(m, r) THEN ReturnedTrue(call.outcome)
               ELSE IF call.ignore_check THEN ReturnedFalse(call.outcome)
               ELSE Raised(call.outcome, "ValueError")

\* an archive of release 1.4.0 was checked on an installed 1.3.1 with
\* ignore_check set, and the call returned False
C2_Witness ==
    /\ Checked
    /\ installed = VersionOf[<<1, 3, 1>>]
    /\ isfile(archives, call.input)
    /\ Carries(archives, call.input, <<1, 4, 0>>)
    /\ call.ignore_check
    /\ ReturnedFalse(call.outcome)

\* what the call decided, the message of an error left aside
Verdict(o) == <<o.kind, o.val>>

\* the call came to a compatibility verdict: True, False, or the ValueError
\* of a mismatch
GaveVerdict(o) ==
    \/ o.kind = "return"
    \/ Raised(o, "ValueError") /\ o.detail[1] = "not matching AMPL compatible version group"

\* C7: on any installed version, two model versions with the same major and
\* minor number get the same outcome (True, False or the same error), patch
\* or no patch; two model versions of different compatibility groups never
\* get the same verdict, and on an installed version of the table never the
\* same outcome.
C7_ComparedByMajorMinor ==
    Checked =>
        \A m1 \in Releases :
            Carries(archives, call.input, m1) =>
                \A m2 \in Releases :
                    (MajorMinor(m1) = MajorMinor(m2)
                        \/ (InTable(m1) /\ InTable(m2) /\ ~SameGroup(m1, m2))) =>
                    \A input2 \in InputsCarrying(archives, m2) :
                        LET other == check_version_compatible(
                                         input2, call.ignore_check, archives, installed).outcome
                        IN  IF MajorMinor(m1) = MajorMinor(m2)
                            THEN Verdict(other) = Verdict(call.outcome)
                            ELSE /\ ~(/\ GaveVerdict(other)
                                      /\ GaveVerdict(call.outcome)
                                      /\ Verdict(other) = Verdict(call.outcome))
                                 /\ (\E r \in InstalledReleases :
                                         installed = VersionOf[r] /\ InTable(r))
                                      => Verdict(other) # Verdict(call.outcome)

\* release 1.5.1 was checked on an installed 1.4.0 and found compatible, as
\* 1.5 and 1.5.0 are, and 1.2.0 is not
C7_Witness ==
    /\ Checked
    /\ installed = VersionOf[<<1, 4, 0>>]
    /\ call.input = VersionOf[<<1, 5, 1>>]
    /\ ReturnedTrue(call.outcome)

\* a non-empty string of digits and dots
DigitsAndDots(s) ==
    /\ Len(s) > 0
    /\ \A i \in 1..Len(s) :
         s[i] \in {"0", "1", "2", "3", "4", "5", "6", "7", "8", "9", "."}

Before(trace, a, b) ==
    \A j \in 1..Len(trace) :
        trace[j] = b => \E i \in 1..(j - 1) : trace[i] = a

\* C8: an input that is no file is validated first: validate_version accepts
\* exactly the non-empty strings of digits and dots, any other string makes
\* check_version_compatible raise ValueError before the installed version is
\* read and the table consulted; a version read from an archive is never
\* validated.
C8_ValidatedFirst ==
    Checked =>
        IF isfile(archives, call.input)
        THEN \A i \in 1..Len(call.trace) : call.trace[i] # "validate_version"
        ELSE /\ (validate_version(call.input).kind = "return")
                    <=> DigitsAndDots(call.input)
             /\ call.trace[2] = "validate_version"
             /\ Before(call.trace, "validate_version", "get_ampl_version")
             /\ Before(call.trace, "validate_version", "comp_dict")
             /\ ~DigitsAndDots(call.input)
                    => /\ Raised(call.outcome, "ValueError")
                       /\ call.outcome.detail[1] = "not valid version format"
                       /\ call.trace = <<"isfile", "validate_version">>

\* the string "1.2a" was refused
C8_Witness ==
    /\ Checked
    /\ call.input = <<"1", ".", "2", "a">>
    /\ Raised(call.outcome, "ValueError")
    /\ call.trace = <<"isfile", "validate_version">>

\* The version a metadata document stands for: the recorded ampl_version, or
\* the fallback when none is recorded.
RecordsVersion(metadata) ==
    /\ "model_parameters" \in DOMAIN metadata.doc.items
    /\ metadata.doc.items["model_parameters"].type = "dict"
    /\ "ampl_version" \in DOMAIN metadata.doc.items["model_parameters"].items

ExpectedVersion(metadata) ==
    IF RecordsVersion(metadata)
    THEN metadata.doc.items["model_parameters"].items["ampl_version"].s
    ELSE default_version

RECURSIVE ExpectedEntries(_)
ExpectedEntries(fs) ==
    IF Len(fs) = 0 THEN <<>>
    ELSE IF fs[1].metadata.state = "json"
    THEN <<fs[1].path \o <<",", " ">> \o ExpectedVersion(fs[1].metadata)>>
             \o ExpectedEntries(Tail(fs))
    ELSE ExpectedEntries(Tail(fs))

\* C5: get_ampl_version_from_dir returns one entry per archive whose metadata
\* is a readable JSON document, in order; an archive whose read fails is
\* skipped and never stops the archives after it.
C5_OneEntryPerReadableArchive ==
    call.fn = "get_ampl_version_from_dir" =>
        /\ call.outcome.kind = "return"
        /\ call.outcome.val = join(<<"\n">>, ExpectedEntries(archives))

\* C6: on every well-formed JSON metadata document get_ampl_version_from_json
\* returns the recorded ampl_version, or 'probably 1.0.0' when none is
\* recorded (a document without model_parameters included).
C6_VersionOrFallback ==
    call.fn = "get_ampl_version_from_json" =>
        \A i \in 1..Len(archives) :
            (archives[i].path = call.input /\ archives[i].metadata.state = "json")
            => /\ call.outcome.kind = "return"
               /\ call.outcome.val = ExpectedVersion(archives[i].metadata)

----------------------------------------------------------------------------
(* compare_splits_plots.py *)
(* A DataFrame is the sequence of its rows, a row a function from column    *)
(* names to values; "nan" is a missing value.  The Tanimoto distances of    *)
(* _get_dists and the UMAP embedding are computed by external libraries and *)
(* are left out: dists is only plotted.  File names are sequences of the    *)
(* pieces they are concatenated from.                                       *)

\* df[df[col].isin(values)]
RECURSIVE isin_rows(_, _, _)
isin_rows(df, col, values) ==
    IF Len(df) = 0 THEN <<>>
    ELSE IF df[1][col] \in values
    THEN <<df[1]>> \o isin_rows(Tail(df), col, values)
    ELSE isin_rows(Tail(df), col, values)

\* split_df[split_df['subset'] == subset]['cmpd_id']
cmpd_ids(split, subset) ==
    {split[i]["cmpd_id"] : i \in {j \in 1..Len(split) : split[j]["subset"] = subset}}

\* split with test and valid exchanged in the returned tuple
split_swapped(total, split_table, id_col) ==
    [train_df |-> isin_rows(total, id_col, cmpd_ids(split_table, "train")),
     test_df |-> isin_rows(total, id_col, cmpd_ids(split_table, "valid")),
     valid_df |-> isin_rows(total, id_col, cmpd_ids(split_table, "test"))]

\* the tuple split returns, as line 39 unpacks it
split(total, split_table, id_col) ==
    [train_df |-> isin_rows(total, id_col, cmpd_ids(split_table, "train")),
     test_df |-> isin_rows(total, id_col, cmpd_ids(split_table, "test")),
     valid_df |-> isin_rows(total, id_col, cmpd_ids(split_table, "valid"))]

\* MultitaskScaffoldSplit.make_y_w: the weight of a row in a task is 1 where
\* the row has a value for the task's column and 0 where it has none
make_y_w(df, columns) ==
    [y |-> [i \in 1..Len(df) |-> [c \in 1..Len(columns) |-> df[i][columns[c]]]],
     w |-> [i \in 1..Len(df) |->
                [c \in 1..Len(columns) |-> IF df[i][columns[c]] = "nan" THEN 0 ELSE 1]]]

\* np.sum(w, axis=0)[c]
RECURSIVE column_sum(_, _)
column_sum(w, c) ==
    IF Len(w) = 0 THEN 0 ELSE w[1][c] + column_sum(Tail(w), c)

\* np.sum(part_w, axis=0) / np.sum(total_w, axis=0): the quotients, each kept
\* as numerator and denominator
fracs(part_w, total_w, ntasks) ==
    [c \in 1..ntasks |-> [num |-> column_sum(part_w, c), den |-> column_sum(total_w, c)]]

\* the valid fractions computed from the test weights
split_ratios_mixed(train_w, valid_w, test_w, total_w, ntasks) ==
    [train_fracs |-> fracs(train_w, total_w, ntasks),
     valid_fracs |-> fracs(test_w, total_w, ntasks),
     test_fracs |-> fracs(test_w, total_w, ntasks)]

\* SplitStats._split_ratios
split_ratios(train_w, valid_w, test_w, total_w, ntasks) ==
    [train_fracs |-> fracs(train_w, total_w, ntasks),
     valid_fracs |-> fracs(valid_w, total_w, ntasks),
     test_fracs |-> fracs(test_w, total_w, ntasks)]

\* SplitStats.__init__
SplitStats_init(total, split_table, smiles_col, id_col, response_cols) ==
    LET parts == split(total, split_table, id_col)
        total_yw == make_y_w(total, response_cols)
        train_yw == make_y_w(parts.train_df, response_cols)
        test_yw == make_y_w(parts.test_df, response_cols)
        valid_yw == make_y_w(parts.valid_df, response_cols)
        ratios == split_ratios(train_yw.w, valid_yw.w, test_yw.w, total_yw.w,
                               Len(response_cols))
    IN  [built |-> TRUE,
         smiles_col |-> smiles_col, id_col |-> id_col, response_cols |-> response_cols,
         total_df |-> total, split_df |-> split_table,
         train_df |-> parts.train_df, test_df |-> parts.test_df,
         valid_df |-> parts.valid_df,
         total_w |-> total_yw.w, train_w |-> train_yw.w,
         test_w |-> test_yw.w, valid_w |-> valid_yw.w,
         train_fracs |-> ratios.train_fracs, valid_fracs |-> ratios.valid_fracs,
         test_fracs |-> ratios.test_fracs]

\* The call SplitStats(**arguments): Python binds the arguments to the
\* parameters of __init__ and raises TypeError when a required one is missing.
SplitStats_parameters == {"total_df", "split_df", "smiles_col", "id_col", "response_cols"}

SplitStats_call(arguments) ==
    LET missing == SplitStats_parameters \ DOMAIN arguments
    IN  IF missing # {} THEN Raise("TypeError", missing)
        ELSE Return(SplitStats_init(arguments["total_df"], arguments["split_df"],
                                    arguments["smiles_col"], arguments["id_col"],
                                    arguments["response_cols"]))

\* save_figure(filename): a png and an svg
save_figure(filename) == {filename \o <<".png">>, filename \o <<".svg">>}

\* dist_hist_plot, umap_plot, subset_frac_plot: the files each one saves
plot_files(dist_path, suffix) ==
    IF Len(dist_path) > 0 THEN save_figure(dist_path \o <<suffix>>) ELSE {}

\* SplitStats.make_all_plots: the files on disk afterwards
make_all_plots(dist_path, files) ==
    files \cup plot_files(dist_path, "_dist_hist")
          \cup plot_files(dist_path, "_umap_scatter")
          \cup plot_files(dist_path, "_frac_box")

\* os.path.join(a, b) for a relative b
os_path_join(a, b) ==
    IF Len(a) = 0 THEN <<b>>
    ELSE IF a[Len(a)] = "/" THEN a \o <<b>>
    ELSE a \o <<"/", b>>

\* The script (lines 219-231) on the tables read from args.csv, args.split_a
\* and args.split_b: the exception it ends with or None, the splits whose
\* plots were made, the files on disk.
main(df, id_col, smiles_col, split_a, split_b, output_dir, files) ==
    LET a == SplitStats_call([total_df |-> df, split_df |-> split_a,
                              smiles_col |-> smiles_col, id_col |-> id_col])
    IN  IF a.kind = "raise"
        THEN [ran |-> TRUE, outcome |-> a, plotted |-> <<>>, files |-> files]
        ELSE LET files_a == make_all_plots(os_path_join(output_dir, "split_a"), files)
                 b == SplitStats_call([total_df |-> df, split_df |-> split_b,
                                       smiles_col |-> smiles_col, id_col |-> id_col])
             IN  IF b.kind = "raise"
                 THEN [ran |-> TRUE, outcome |-> b, plotted |-> <<"split_a">>,
                       files |-> files_a]
                 ELSE [ran |-> TRUE, outcome |-> Return("None"),
                       plotted |-> <<"split_a", "split_b">>,
                       files |-> make_all_plots(os_path_join(output_dir, "split_b"),
                                                files_a)]

----------------------------------------------------------------------------
(* The datasets and the operations of compare_splits_plots *)

MaxRows == 2
MaxSplitRows == 2

Ids == {"c1", "c2"}
Subsets == {"train", "valid", "test"}
Values == {"nan", "1.0"}

IdCol == "compound_id"
SmilesCol == "smiles"
ResponseCols == <<"pIC50", "pKi">>

DatasetRows ==
    {[compound_id |-> id, smiles |-> <<"smiles of", id>>, pIC50 |-> a, pKi |-> b] :
        id \in Ids, a \in Values, b \in Values}

SplitRows == {[cmpd_id |-> id, subset |-> sub] : id \in Ids, sub \in Subsets}

Tables(rows, n) == UNION {[1..k -> rows] : k \in 0..n}

OutputDirs == {<<>>, <<"out">>}

InitSplits ==
    /\ installed = <<>>
    /\ archives = <<>>
    /\ call = NoCall
    /\ total_df \in Tables(DatasetRows, MaxRows)
    /\ split_df \in Tables(SplitRows, MaxSplitRows)
    /\ ss = NoObject
    /\ figures = {}
    /\ script = NoRun

\* ss = SplitStats(total_df, split_df, smiles_col, id_col, response_cols)
NewSplitStats ==
    /\ ~ss.built
    /\ ~script.ran
    /\ ss' = SplitStats_call([total_df |-> total_df, split_df |-> split_df,
                              smiles_col |-> SmilesCol, id_col |-> IdCol,
                              response_cols |-> ResponseCols]).val
    /\ UNCHANGED <<installed, archives, call, total_df, split_df, figures, script>>

\* ss.make_all_plots(dist_path)
MakeAllPlots ==
    /\ ss.built
    /\ \E dist_path \in {<<>>, os_path_join(<<"out">>, "split")} :
         figures' = make_all_plots(dist_path, figures)
    /\ UNCHANGED <<installed, archives, call, total_df, split_df, ss, script>>

\* python compare_splits_plots.py csv id_col smiles_col split_a split_b output_dir
RunScript ==
    /\ ~ss.built
    /\ ~script.ran
    /\ \E output_dir \in OutputDirs, split_b \in {<<>>, split_df} :
         LET r == main(total_df, IdCol, SmilesCol, split_df, split_b, output_dir, figures)
         IN  /\ script' = [ran |-> TRUE, outcome |-> r.outcome, plotted |-> r.plotted]
             /\ figures' = r.files
    /\ UNCHANGED <<installed, archives, call, total_df, split_df, ss>>

NextSplits ==
    \/ NewSplitStats
    \/ MakeAllPlots
    \/ RunScript

SpecSplits == InitSplits /\ [][NextSplits]_vars

----------------------------------------------------------------------------
(* Properties of compare_splits_plots *)

Range(seq) == {seq[i] : i \in 1..Len(seq)}

\* the subset labels split_df gives an id
LabelsOf(id) == {split_df[j]["subset"] : j \in {k \in 1..Len(split_df) : split_df[k]["cmpd_id"] = id}}

\* the rows of total_df at the indices in I, in the order of total_df
RowsAt(I) ==
    LET pick[k \in 0..Len(total_df)] ==
            IF k = 0 THEN <<>>
            ELSE IF k \in I THEN Append(pick[k - 1], total_df[k]) ELSE pick[k - 1]
    IN  pick[Len(total_df)]

Labelled(subset) == {i \in 1..Len(total_df) : subset \in LabelsOf(total_df[i][IdCol])}

\* C3: split gives (train, test, valid), each table the rows of total_df whose
\* id has that label in split_df, and SplitStats keeps them under the matching
\* names; a row whose id is not in split_df is in none; when no id has two
\* labels the tables are pairwise disjoint and together hold every row whose
\* id is in split_df.
C3_SplitByLabel ==
    ss.built =>
        /\ ss.train_df = RowsAt(Labelled("train"))
        /\ ss.test_df = RowsAt(Labelled("test"))
        /\ ss.valid_df = RowsAt(Labelled("valid"))
        /\ \A i \in 1..Len(total_df) :
               LabelsOf(total_df[i][IdCol]) = {}
                   => total_df[i] \notin
                          Range(ss.train_df) \cup Range(ss.test_df) \cup Range(ss.valid_df)
        /\ (\A id \in Ids : Cardinality(LabelsOf(id)) <= 1)
               => /\ Range(ss.train_df) \cap Range(ss.test_df) = {}
                  /\ Range(ss.train_df) \cap Range(ss.valid_df) = {}
                  /\ Range(ss.test_df) \cap Range(ss.valid_df) = {}
                  /\ Len(ss.train_df) + Len(ss.test_df) + Len(ss.valid_df)
                        = Cardinality({i \in 1..Len(total_df) :
                                          LabelsOf(total_df[i][IdCol]) # {}})
                  /\ Range(ss.train_df) \cup Range(ss.test_df) \cup Range(ss.valid_df)
                        = {total_df[i] : i \in {k \in 1..Len(total_df) :
                                                   LabelsOf(total_df[k][IdCol]) # {}}}

\* a SplitStats of two rows, one in the test subset and one whose id the
\* split does not hold
C3_Witness ==
    /\ ss.built
    /\ Len(total_df) = 2
    /\ Len(ss.test_df) = 1
    /\ Len(ss.train_df) = 0
    /\ Len(ss.valid_df) = 0
    /\ \E i \in 1..Len(total_df) : LabelsOf(total_df[i][IdCol]) = {}

\* C4: the script builds a SplitStats and makes the plots for split A and
\* then for split B: a run reaches the plotting step of both.
C4_ScriptPlotsBothSplits ==
    (script.ran /\ Len(total_df) > 0 /\ Len(split_df) > 0) =>
        /\ script.outcome.kind = "return"
        /\ script.plotted = <<"split_a", "split_b">>

\* the rows that have a value in the column of task c
Valued(c) == {i \in 1..Len(total_df) : total_df[i][ResponseCols[c]] # "nan"}

ValuedIn(c, subset) == {i \in Valued(c) : LabelsOf(total_df[i][IdCol]) = {subset}}

\* C9: for a task whose column has a value and whose valued rows each have an
\* id with exactly one label in split_df, the train, valid and test counts add
\* up to the total count: the three fractions have the total as denominator,
\* numerators that sum to it and lie between 0 and it, and are the train,
\* the valid and the test fraction in that order.
C9_FractionsSumToOne ==
    ss.built =>
        \A c \in 1..Len(ResponseCols) :
            (/\ Valued(c) # {}
             /\ \A i \in Valued(c) : Cardinality(LabelsOf(total_df[i][IdCol])) = 1)
            => /\ ss.train_fracs[c].den = Cardinality(Valued(c))
               /\ ss.valid_fracs[c].den = Cardinality(Valued(c))
               /\ ss.test_fracs[c].den = Cardinality(Valued(c))
               /\ ss.train_fracs[c].num + ss.valid_fracs[c].num + ss.test_fracs[c].num
                     = Cardinality(Valued(c))
               /\ \A f \in {ss.train_fracs[c], ss.valid_fracs[c], ss.test_fracs[c]} :
                      0 <= f.num /\ f.num <= f.den
               /\ ss.train_fracs[c].num = Cardinality(ValuedIn(c, "train"))
               /\ ss.valid_fracs[c].num = Cardinality(ValuedIn(c, "valid"))
               /\ ss.test_fracs[c].num = Cardinality(ValuedIn(c, "test"))

\* a SplitStats whose first task has one valued row in train and one in valid
C9_Witness ==
    /\ ss.built
    /\ Cardinality(Valued(1)) = 2
    /\ \A i \in Valued(1) : Cardinality(LabelsOf(total_df[i][IdCol])) = 1
    /\ ss.train_fracs[1] = [num |-> 1, den |-> 2]
    /\ ss.valid_fracs[1] = [num |-> 1, den |-> 2]
    /\ ss.test_fracs[1] = [num |-> 0, den |-> 2]

====
